---- MODULE Spec2Model ----
(***************************************************************************)
(* The four send-keys tools of scripts/: send-keys.c, send-keys-no-enter.c, *)
(* send-keys-pty.c and send-keys-raw.c.  One run of one tool is modelled as *)
(* a state machine whose steps are the system calls main() makes: open,     *)
(* tcgetattr, ioctl(TIOCSTI), usleep and close.  Every system call may      *)
(* succeed or fail.  The target terminal is its input queue and its local   *)
(* mode flags (c_lflag), which another process may change while the tool    *)
(* runs.                                                                    *)
(***************************************************************************)
EXTENDS Integers, Sequences, FiniteSets, TLC

\* ---- bounds of the model ----
MaxLen == 3
MaxArgc == 5
MaxModeChanges == 1
MaxConcLen == 2

\* ---- program constants ----
CR == 13
LF == 10
ICANON == 2
ECHO == 8
INTER_CHAR_USEC == 1000
SETTLE_USEC == 10000

Variants == {"send-keys", "send-keys-no-enter", "send-keys-pty", "send-keys-raw"}
Bytes == {65, CR, LF}
Tokens == {"enter", "none", "xyz"}
LFlags == {ECHO, ICANON, ICANON + ECHO}
Payloads == UNION {[1..n -> Bytes] : n \in 0..MaxLen}

VARIABLES
    prog,        \* which tool runs (argv[0])
    argc,        \* argument count, program name included
    argv2,       \* argv[2], the text to send (<<>> when absent)
    argv3,       \* argv[3], the eol token ("" when absent)
    pc,          \* position of main()
    fd,          \* the descriptor returned by open (-1: none)
    openFds,     \* descriptors the kernel holds open for the process
    i,           \* loop index over text
    tios,        \* tios.c_lflag; -1 while the structure is unfilled
    termLflag,   \* c_lflag of the target terminal
    modeChanges, \* number of mode changes made by other processes
    queue,       \* bytes put on the terminal's input queue by the invocations
    trace,       \* system calls made so far, in order
    stderr,      \* diagnostics written so far
    exitStatus,  \* -1 while running, else the value returned by main()
    peer         \* a second invocation on the same terminal, while it is not
                 \* the one on the processor (pc = "none": there is none)

vars == <<prog, argc, argv2, argv3, pc, fd, openFds, i, tios, termLflag,
          modeChanges, queue, trace, stderr, exitStatus, peer>>

args == <<prog, argc, argv2, argv3>>

Ev(op, kind, byte, ok) == [op |-> op, kind |-> kind, byte |-> byte, ok |-> ok]

\* char *text = argv[2];
text == argv2

strlen(s) == Len(s)

\* tios.c_lflag & ICANON
HasICANON(lflag) == (lflag \div ICANON) % 2 = 1

\* the argc test at the top of main()
UsageError ==
    IF prog = "send-keys-no-enter" THEN argc < 3 \/ argc > 4 ELSE argc # 3

\* a test that also frames the line when no token is given
WantsEnterByDefault == argc = 3 \/ (argc = 4 /\ argv3 = "enter")

\* a test that uses the result of strcmp as a truth value
WantsEnterStrcmp == argc = 4 /\ argv3 # "enter"

\* argc == 4 && strcmp(argv[3], "enter") == 0
WantsEnter == argc = 4 /\ argv3 = "enter"

\* a loop that hands &text[0] to every call
CharAtFirst(s, k) == s[1]

\* a loop that walks the text from its end
CharAtReversed(s, k) == s[Len(s) - k]

\* &text[i]: the byte handed to TIOCSTI for loop index k (C index k)
CharAt(s, k) == s[k + 1]

\* effect of ioctl(fd, TIOCSTI, &c) on the input queue
Sti(q, c, ok) == IF ok THEN Append(q, c) ELSE q

QueriesAttrs == prog \in {"send-keys-pty", "send-keys-raw"}

NoPeer == [id |-> 0, pc |-> "none"]

TypeOK ==
    /\ prog \in Variants
    /\ argc \in 2..(MaxArgc + 1)
    /\ argv3 \in Tokens \cup {""}
    /\ fd \in {-1, 3}
    /\ openFds \subseteq {3}
    /\ i \in 0..(MaxLen + 1)
    /\ tios \in LFlags \cup {-1}
    /\ termLflag \in LFlags
    /\ exitStatus \in {-1, 0, 1}

Init ==
    /\ prog \in Variants
    /\ argc \in 2..MaxArgc
    /\ argv2 \in (IF argc >= 3 THEN Payloads ELSE {<<>>})
    /\ argv3 \in (IF argc >= 4 THEN Tokens ELSE {""})
    /\ pc = "start"
    /\ fd = -1
    /\ openFds = {}
    /\ i = 0
    /\ tios = -1
    /\ termLflag \in LFlags
    /\ modeChanges = 0
    /\ queue = <<>>
    /\ trace = <<>>
    /\ stderr = <<>>
    /\ exitStatus = -1
    /\ peer = NoPeer

\* if (argc != 3) { fprintf(stderr, "Usage: ..."); return 1; }
Usage ==
    /\ pc = "start"
    /\ UsageError
    /\ stderr' = Append(stderr, "Usage")
    /\ exitStatus' = 1
    /\ pc' = "exit"
    /\ UNCHANGED <<args, peer, fd, openFds, i, tios, termLflag, modeChanges, queue, trace>>

\* int fd = open(argv[1], O_RDWR); succeeded
OpenOK ==
    /\ pc = "start"
    /\ ~UsageError
    /\ fd' = 3
    /\ openFds' = openFds \cup {3}
    /\ trace' = Append(trace, Ev("open", "", 0, TRUE))
    /\ pc' = IF QueriesAttrs THEN "tcgetattr" ELSE "loop"
    /\ UNCHANGED <<args, peer, i, tios, termLflag, modeChanges, queue, stderr, exitStatus>>

\* an open whose result is not tested: main() goes on with fd = -1
OpenFailIgnored ==
    /\ pc = "start"
    /\ ~UsageError
    /\ fd' = -1
    /\ trace' = Append(trace, Ev("open", "", 0, FALSE))
    /\ pc' = IF QueriesAttrs THEN "tcgetattr" ELSE "loop"
    /\ UNCHANGED <<args, peer, openFds, i, tios, termLflag, modeChanges, queue, stderr, exitStatus>>

\* if (fd < 0) { perror("Failed to open terminal"); return 1; }
OpenFail ==
    /\ pc = "start"
    /\ ~UsageError
    /\ fd' = -1
    /\ trace' = Append(trace, Ev("open", "", 0, FALSE))
    /\ stderr' = Append(stderr, "Failed to open terminal")
    /\ exitStatus' = 1
    /\ pc' = "exit"
    /\ UNCHANGED <<args, peer, openFds, i, tios, termLflag, modeChanges, queue>>

\* a query followed by a tcsetattr that switches the terminal to raw mode
TcGetAttrThenSetRaw ==
    /\ pc = "tcgetattr"
    /\ tios' = termLflag
    /\ termLflag' = ECHO
    /\ trace' = Append(trace, Ev("tcgetattr", "", termLflag, TRUE))
    /\ pc' = "loop"
    /\ UNCHANGED <<args, peer, fd, openFds, i, modeChanges, queue, stderr, exitStatus>>

\* tcgetattr(fd, &tios) succeeded: the structure holds the terminal's flags
TcGetAttrOK ==
    /\ pc = "tcgetattr"
    /\ tios' = termLflag
    /\ trace' = Append(trace, Ev("tcgetattr", "", termLflag, TRUE))
    /\ pc' = "loop"
    /\ UNCHANGED <<args, peer, fd, openFds, i, termLflag, modeChanges, queue, stderr, exitStatus>>

\* tcgetattr(fd, &tios) < 0: the structure stays unfilled; send-keys-pty
\* reports it, send-keys-raw ignores the result
TcGetAttrFail ==
    /\ pc = "tcgetattr"
    /\ tios' = tios
    /\ trace' = Append(trace, Ev("tcgetattr", "", 0, FALSE))
    /\ stderr' = IF prog = "send-keys-pty"
                 THEN Append(stderr, "tcgetattr failed") ELSE stderr
    /\ pc' = "loop"
    /\ UNCHANGED <<args, peer, fd, openFds, i, termLflag, modeChanges, queue, exitStatus>>

\* loop body, ioctl(fd, TIOCSTI, &text[i]) succeeded
SendChar ==
    /\ pc = "loop"
    /\ i < strlen(text)
    /\ queue' = Sti(queue, CharAt(text, i), TRUE)
    /\ trace' = Append(trace, Ev("ioctl", "text", CharAt(text, i), TRUE))
    /\ IF prog = "send-keys-pty"
       THEN pc' = "usleep" /\ i' = i
       ELSE pc' = "loop" /\ i' = i + 1
    /\ UNCHANGED <<args, peer, fd, openFds, tios, termLflag, modeChanges, stderr, exitStatus>>

\* a failure branch that closes the handle but returns 0
SendCharFailReturn0 ==
    /\ pc = "loop"
    /\ i < strlen(text)
    /\ queue' = Sti(queue, CharAt(text, i), FALSE)
    /\ trace' = trace \o <<Ev("ioctl", "text", CharAt(text, i), FALSE),
                           Ev("close", "", 0, TRUE)>>
    /\ stderr' = Append(stderr, "Failed to send character")
    /\ openFds' = openFds \ {fd}
    /\ exitStatus' = 0
    /\ pc' = "exit"
    /\ UNCHANGED <<args, peer, fd, i, tios, termLflag, modeChanges>>

\* a failure branch that only reports the failure and goes on with the loop
SendCharFailContinue ==
    /\ pc = "loop"
    /\ i < strlen(text)
    /\ queue' = Sti(queue, CharAt(text, i), FALSE)
    /\ trace' = Append(trace, Ev("ioctl", "text", CharAt(text, i), FALSE))
    /\ stderr' = Append(stderr, "Failed to send character")
    /\ i' = i + 1
    /\ UNCHANGED <<args, peer, pc, fd, openFds, tios, termLflag, modeChanges, exitStatus>>

\* loop body, ioctl(fd, TIOCSTI, &text[i]) < 0:
\* perror("Failed to send character"); close(fd); return 1;
SendCharFail ==
    /\ pc = "loop"
    /\ i < strlen(text)
    /\ queue' = Sti(queue, CharAt(text, i), FALSE)
    /\ trace' = trace \o <<Ev("ioctl", "text", CharAt(text, i), FALSE),
                           Ev("close", "", 0, TRUE)>>
    /\ stderr' = Append(stderr, "Failed to send character")
    /\ openFds' = openFds \ {fd}
    /\ exitStatus' = 1
    /\ pc' = "exit"
    /\ UNCHANGED <<args, peer, fd, i, tios, termLflag, modeChanges>>

\* usleep(1000) at the end of the loop body of send-keys-pty, then i++
InterCharDelay ==
    /\ pc = "usleep"
    /\ trace' = Append(trace, Ev("usleep", "", INTER_CHAR_USEC, TRUE))
    /\ i' = i + 1
    /\ pc' = "loop"
    /\ UNCHANGED <<args, peer, fd, openFds, tios, termLflag, modeChanges, queue, stderr, exitStatus>>

\* a framing that starts with the LF
AfterLoopLFFirst ==
    IF prog = "send-keys-no-enter" /\ ~WantsEnter THEN "close" ELSE "lf"

\* where main() goes when the loop condition i < strlen(text) is false
AfterLoop ==
    IF prog = "send-keys-no-enter" /\ ~WantsEnter THEN "close" ELSE "cr"

\* a loop condition that is off by one: i + 1 < strlen(text)
LoopExitEarly ==
    /\ pc = "loop"
    /\ ~(i + 1 < strlen(text))
    /\ pc' = AfterLoop
    /\ UNCHANGED <<args, peer, fd, openFds, i, tios, termLflag, modeChanges, queue, trace,
                   stderr, exitStatus>>

\* a loop condition i <= strlen(text): the loop is not left when i reaches
\* strlen(text)
LoopExitPastEnd ==
    /\ pc = "loop"
    /\ ~(i <= strlen(text))
    /\ pc' = AfterLoop
    /\ UNCHANGED <<args, peer, fd, openFds, i, tios, termLflag, modeChanges, queue, trace,
                   stderr, exitStatus>>

LoopExit ==
    /\ pc = "loop"
    /\ ~(i < strlen(text))
    /\ pc' = AfterLoop
    /\ UNCHANGED <<args, peer, fd, openFds, i, tios, termLflag, modeChanges, queue, trace,
                   stderr, exitStatus>>

\* a send-keys-pty without the usleep(10000) between CR and LF
AfterCRNoSettle ==
    CASE prog = "send-keys-pty" -> "canon"
      [] prog = "send-keys-raw" -> "close"
      [] OTHER -> "lf"

\* where main() goes after the CR ioctl returned (whatever it returned)
AfterCR ==
    CASE prog = "send-keys-pty" -> "settle"
      [] prog = "send-keys-raw" -> "close"
      [] OTHER -> "lf"

\* a CR failure that skips the rest of the framing
SendCRStopOnFailure ==
    /\ pc = "cr"
    /\ \E ok \in BOOLEAN :
        /\ ~ok => prog # "send-keys-raw"
        /\ queue' = Sti(queue, CR, ok)
        /\ trace' = Append(trace, Ev("ioctl", "cr", CR, ok))
        /\ stderr' = IF ok THEN stderr ELSE Append(stderr, "Failed to send CR")
        /\ pc' = IF ok THEN AfterCR ELSE "close"
    /\ UNCHANGED <<args, peer, fd, openFds, i, tios, termLflag, modeChanges, exitStatus>>

\* ioctl(fd, TIOCSTI, &cr): success, or a failure that is only reported
SendCR ==
    /\ pc = "cr"
    /\ \E ok \in BOOLEAN :
        /\ ~ok => prog # "send-keys-raw"
        /\ queue' = Sti(queue, CR, ok)
        /\ trace' = Append(trace, Ev("ioctl", "cr", CR, ok))
        /\ stderr' = IF ok THEN stderr ELSE Append(stderr, "Failed to send CR")
    /\ pc' = AfterCR
    /\ UNCHANGED <<args, peer, fd, openFds, i, tios, termLflag, modeChanges, exitStatus>>

\* a failure branch that returns without close(fd)
SendCRFatalNoClose ==
    /\ pc = "cr"
    /\ prog = "send-keys-raw"
    /\ queue' = Sti(queue, CR, FALSE)
    /\ trace' = Append(trace, Ev("ioctl", "cr", CR, FALSE))
    /\ stderr' = Append(stderr, "Failed to send Enter key")
    /\ exitStatus' = 1
    /\ pc' = "exit"
    /\ UNCHANGED <<args, peer, fd, openFds, i, tios, termLflag, modeChanges>>

\* a failure branch that closes the handle but returns 0
SendCRFatalReturn0 ==
    /\ pc = "cr"
    /\ prog = "send-keys-raw"
    /\ queue' = Sti(queue, CR, FALSE)
    /\ trace' = trace \o <<Ev("ioctl", "cr", CR, FALSE), Ev("close", "", 0, TRUE)>>
    /\ stderr' = Append(stderr, "Failed to send Enter key")
    /\ openFds' = openFds \ {fd}
    /\ exitStatus' = 0
    /\ pc' = "exit"
    /\ UNCHANGED <<args, peer, fd, i, tios, termLflag, modeChanges>>

\* send-keys-raw: ioctl(fd, TIOCSTI, &cr) < 0:
\* perror("Failed to send Enter key"); close(fd); return 1;
SendCRFatal ==
    /\ pc = "cr"
    /\ prog = "send-keys-raw"
    /\ queue' = Sti(queue, CR, FALSE)
    /\ trace' = trace \o <<Ev("ioctl", "cr", CR, FALSE), Ev("close", "", 0, TRUE)>>
    /\ stderr' = Append(stderr, "Failed to send Enter key")
    /\ openFds' = openFds \ {fd}
    /\ exitStatus' = 1
    /\ pc' = "exit"
    /\ UNCHANGED <<args, peer, fd, i, tios, termLflag, modeChanges>>

\* usleep(10000) of send-keys-pty
SettleDelay ==
    /\ pc = "settle"
    /\ trace' = Append(trace, Ev("usleep", "", SETTLE_USEC, TRUE))
    /\ pc' = "canon"
    /\ UNCHANGED <<args, peer, fd, openFds, i, tios, termLflag, modeChanges, queue, stderr,
                   exitStatus>>

\* a decision that queries the terminal again at decision time
TermLflagNow == {termLflag}

\* the values a read of tios.c_lflag can yield: the flags tcgetattr stored,
\* or anything at all when the structure was never filled
TiosLflagValues == IF tios = -1 THEN LFlags ELSE {tios}

\* if (tios.c_lflag & ICANON)
CheckCanon ==
    /\ pc = "canon"
    /\ \E v \in TiosLflagValues : pc' = IF HasICANON(v) THEN "lf" ELSE "close"
    /\ UNCHANGED <<args, peer, fd, openFds, i, tios, termLflag, modeChanges, queue, trace,
                   stderr, exitStatus>>

\* ioctl(fd, TIOCSTI, &lf): success, or a failure that is only reported
SendLF ==
    /\ pc = "lf"
    /\ \E ok \in BOOLEAN :
        /\ queue' = Sti(queue, LF, ok)
        /\ trace' = Append(trace, Ev("ioctl", "lf", LF, ok))
        /\ stderr' = IF ok THEN stderr ELSE Append(stderr, "Failed to send LF")
    /\ pc' = "close"
    /\ UNCHANGED <<args, peer, fd, openFds, i, tios, termLflag, modeChanges, exitStatus>>

\* close(fd); return 0;
Close ==
    /\ pc = "close"
    /\ openFds' = openFds \ {fd}
    /\ trace' = Append(trace, Ev("close", "", 0, TRUE))
    /\ exitStatus' = 0
    /\ pc' = "exit"
    /\ UNCHANGED <<args, peer, fd, i, tios, termLflag, modeChanges, queue, stderr>>

\* another process changes the local modes of the terminal while the tool runs
ModeChange ==
    /\ pc # "exit"
    /\ modeChanges < MaxModeChanges
    /\ \E v \in LFlags \ {termLflag} : termLflag' = v
    /\ modeChanges' = modeChanges + 1
    /\ UNCHANGED <<args, peer, pc, fd, openFds, i, tios, queue, trace, stderr, exitStatus>>

Next ==
    \/ Usage
    \/ OpenOK
    \/ OpenFail
    \/ TcGetAttrOK
    \/ TcGetAttrFail
    \/ SendChar
    \/ SendCharFail
    \/ InterCharDelay
    \/ LoopExit
    \/ SendCR
    \/ SendCRFatal
    \/ SettleDelay
    \/ CheckCanon
    \/ SendLF
    \/ Close
    \/ ModeChange

Spec == Init /\ [][Next]_vars

\* ---- two invocations on one terminal ----
ConcBytes == {65, 66}
ConcPayloads == UNION {[1..n -> ConcBytes] : n \in 0..MaxConcLen}

\* two invocations of send-keys-no-enter with token "none", both at the top
\* of main(); invocation 1 is on the processor, invocation 2 waits
ConcInit ==
    /\ prog = "send-keys-no-enter"
    /\ argc = 4
    /\ argv2 \in ConcPayloads
    /\ argv3 = "none"
    /\ pc = "start"
    /\ fd = -1
    /\ openFds = {}
    /\ i = 0
    /\ tios = -1
    /\ termLflag \in LFlags
    /\ modeChanges = 0
    /\ queue = <<>>
    /\ trace = <<>>
    /\ stderr = <<>>
    /\ exitStatus = -1
    /\ \E b \in ConcPayloads :
        peer = [id |-> 2, prog |-> "send-keys-no-enter", argc |-> 4, argv2 |-> b,
                argv3 |-> "none", pc |-> "start", fd |-> -1, openFds |-> {},
                i |-> 0, tios |-> -1, trace |-> <<>>, stderr |-> <<>>,
                exitStatus |-> -1]

\* the kernel takes the running invocation off the processor between two of
\* its system calls and puts the other one on: the process-local state is
\* exchanged, the terminal (flags and input queue) is shared
Switch ==
    /\ peer.pc # "none"
    /\ peer' = [id |-> 3 - peer.id, prog |-> prog, argc |-> argc, argv2 |-> argv2,
                argv3 |-> argv3, pc |-> pc, fd |-> fd, openFds |-> openFds,
                i |-> i, tios |-> tios, trace |-> trace, stderr |-> stderr,
                exitStatus |-> exitStatus]
    /\ prog' = peer.prog
    /\ argc' = peer.argc
    /\ argv2' = peer.argv2
    /\ argv3' = peer.argv3
    /\ pc' = peer.pc
    /\ fd' = peer.fd
    /\ openFds' = peer.openFds
    /\ i' = peer.i
    /\ tios' = peer.tios
    /\ trace' = peer.trace
    /\ stderr' = peer.stderr
    /\ exitStatus' = peer.exitStatus
    /\ UNCHANGED <<termLflag, modeChanges, queue>>

ConcNext ==
    \/ OpenOK
    \/ OpenFail
    \/ SendChar
    \/ SendCharFail
    \/ LoopExit
    \/ Close
    \/ Switch

ConcSpec == ConcInit /\ [][ConcNext]_vars

\* the steps of main(): each is one system call, which eventually returns
ToolStep ==
    \/ Usage
    \/ OpenOK
    \/ OpenFail
    \/ TcGetAttrOK
    \/ TcGetAttrFail
    \/ SendChar
    \/ SendCharFail
    \/ InterCharDelay
    \/ LoopExit
    \/ SendCR
    \/ SendCRFatal
    \/ SettleDelay
    \/ CheckCanon
    \/ SendLF
    \/ Close

\* the run under the assumption that every system call returns
LiveSpec == Init /\ [][Next]_vars /\ WF_vars(ToolStep)

\* ---- observations on the run so far ----

IsPrefix(s, t) == Len(s) <= Len(t) /\ s = SubSeq(t, 1, Len(s))

BytesOf(evs) == [k \in 1..Len(evs) |-> evs[k].byte]

IsTextCall(e) == e.op = "ioctl" /\ e.kind = "text"
IsFramingCall(e) == e.op = "ioctl" /\ e.kind \in {"cr", "lf"}
IsAcceptedText(e) == IsTextCall(e) /\ e.ok
IsAcceptedFraming(e) == IsFramingCall(e) /\ e.ok

\* the payload bytes the kernel accepted, in call order
AcceptedText == BytesOf(SelectSeq(trace, IsAcceptedText))
\* the framing bytes the tool tried to inject, and those the kernel accepted
FramingAttempts == BytesOf(SelectSeq(trace, IsFramingCall))
AcceptedFraming == BytesOf(SelectSeq(trace, IsAcceptedFraming))

AllTextAccepted == AcceptedText = text
Opened == \E k \in 1..Len(trace) : trace[k].op = "open" /\ trace[k].ok
Called(kind, ok) ==
    \E k \in 1..Len(trace) :
        trace[k].op = "ioctl" /\ trace[k].kind = kind /\ trace[k].ok = ok
CloseCount == Cardinality({k \in 1..Len(trace) : trace[k].op = "close"})
Exited(status) == pc = "exit" /\ exitStatus = status
Framings == {<<>>, <<CR>>, <<LF>>, <<CR, LF>>}

\* ---- C1 ----
\* C1: byte fidelity.  At every point of a run of any variant the bytes put on
\* the input queue are a prefix of the payload, or the whole payload followed
\* by framing bytes; after exit 0 the queue starts with exactly the payload.
C1_ByteFidelity ==
    /\ \/ IsPrefix(queue, text)
       \/ \E f \in Framings : queue = text \o f
    /\ Exited(0) => IsPrefix(text, queue)
    /\ Len(queue) <= Len(text) => queue = AcceptedText

C1_Witness ==
    /\ Exited(0)
    /\ Len(text) >= 2
    /\ text[1] # text[2]
    /\ queue = text \o <<CR, LF>>

\* ---- C2 ----
\* C2 as stated: a run that opened the device exits 0 exactly when every
\* payload byte was accepted, in every variant, and exits 1 otherwise.
C2_ExitZeroIffPayloadAccepted ==
    (pc = "exit" /\ Opened) =>
        /\ exitStatus \in {0, 1}
        /\ exitStatus = 0 <=> AllTextAccepted

\* C2 amended: a run exits 0 only if the device was opened and every payload
\* byte was accepted.  For a run that opened the device, send-keys,
\* send-keys-no-enter and send-keys-pty exit 0 exactly when every payload byte
\* was accepted; send-keys-raw exits 0 exactly when every payload byte and the
\* CR were accepted.  Every other run exits 1.
C2_ExitStatus ==
    pc = "exit" =>
        /\ exitStatus \in {0, 1}
        /\ exitStatus = 0 => Opened /\ AllTextAccepted
        /\ Opened =>
            (exitStatus = 0 <=>
                /\ AllTextAccepted
                /\ prog = "send-keys-raw" => Called("cr", TRUE))

C2_Witness ==
    /\ Exited(1)
    /\ prog = "send-keys-raw"
    /\ Len(text) >= 1
    /\ AllTextAccepted
    /\ Called("cr", FALSE)

\* ---- C3 ----
\* C3: when the injection of payload byte i fails, the failed call is the last
\* injection call of the run, the handle is closed right after it, the run has
\* exited with status 1, and the queue holds exactly the first i payload bytes.
C3_PayloadFailure ==
    \A k \in 1..Len(trace) :
        (IsTextCall(trace[k]) /\ ~trace[k].ok) =>
            /\ \A j \in (k + 1)..Len(trace) : trace[j].op # "ioctl"
            /\ Len(trace) = k + 1
            /\ trace[k + 1].op = "close"
            /\ openFds = {}
            /\ Exited(1)
            /\ trace[k].byte = CharAt(text, i)
            /\ queue = SubSeq(text, 1, i)

C3_Witness ==
    /\ Exited(1)
    /\ Called("text", FALSE)
    /\ i >= 1
    /\ Len(text) >= i + 2
    /\ queue = SubSeq(text, 1, i)

\* ---- C4 ----
\* C4: once the open succeeded, the handle is closed exactly once by the time
\* the run has exited (with 0 or 1), it is never closed twice, a handle that
\* was never opened is never closed, and no system call is made on the handle
\* after the close.
C4_HandleRelease ==
    /\ CloseCount <= 1
    /\ ~Opened => CloseCount = 0
    /\ (pc = "exit" /\ Opened) => (CloseCount = 1 /\ openFds = {})
    /\ (pc # "exit" /\ Opened) => (CloseCount = 0 /\ openFds = {fd})
    /\ \A k \in 1..Len(trace) : trace[k].op = "close" => k = Len(trace)

C4_Witness ==
    /\ Exited(1)
    /\ prog = "send-keys-raw"
    /\ Called("cr", FALSE)
    /\ Len(text) >= 1
    /\ CloseCount = 1

\* ---- C5 ----
\* C5: every CR or LF framing call comes after successful injections of all
\* payload bytes and after no failed payload call, no payload call follows a
\* framing call, and a CR call always precedes an LF call of the same run.
C5_FramingAfterPayload ==
    \A k \in 1..Len(trace) :
        IsFramingCall(trace[k]) =>
            /\ BytesOf(SelectSeq(SubSeq(trace, 1, k - 1), IsAcceptedText)) = text
            /\ \A j \in 1..Len(trace) : IsTextCall(trace[j]) => (j < k /\ trace[j].ok)
            /\ \A j \in 1..Len(trace) :
                (trace[k].kind = "lf" /\ trace[j].op = "ioctl" /\ trace[j].kind = "cr")
                    => j < k

C5_Witness ==
    /\ pc = "exit"
    /\ Len(text) >= 2
    /\ Called("cr", TRUE)
    /\ Called("lf", TRUE)

\* ---- C6 ----
\* a command line the usage text rules out: a wrong argument count, or an
\* eol-token that is neither "enter" nor "none"
Misuse ==
    IF prog = "send-keys-no-enter"
    THEN argc \notin {3, 4} \/ (argc = 4 /\ argv3 \notin {"enter", "none"})
    ELSE argc # 3

\* C6: a misused command line injects no byte into the target and ends with
\* exit status 1.
C6_MisuseIsFatal ==
    Misuse =>
        /\ queue = <<>>
        /\ pc = "exit" => exitStatus = 1

\* ---- C7 ----
QueryFailed ==
    \E k \in 1..Len(trace) : trace[k].op = "tcgetattr" /\ ~trace[k].ok

\* C7: in send-keys-pty, after a failed tcgetattr the run never attempts the
\* LF injection, whatever the unfilled structure holds.
C7_QueryFailureMeansNoLF ==
    (prog = "send-keys-pty" /\ QueryFailed) =>
        /\ pc # "lf"
        /\ ~Called("lf", TRUE)
        /\ ~Called("lf", FALSE)

\* ---- C8 ----
\* a terminal that is and stayed in canonical mode
CanonicalTerminal == modeChanges = 0 /\ HasICANON(termLflag)

DefaultFramingRun == Exited(0) /\ argc = 3 /\ CanonicalTerminal

\* C8 as stated: in every variant, after exit 0 with no eol-token on a
\* canonical-mode terminal, the queue holds the payload followed by framing
\* that contains at least one 0x0A.
C8_LineFeedAfterPayload ==
    DefaultFramingRun => queue \in {text \o <<LF>>, text \o <<CR, LF>>}

\* C8 amended: after exit 0 with no eol-token on a canonical-mode terminal the
\* queue holds the payload followed by exactly the framing bytes whose
\* injection was accepted.  send-keys attempts CR then LF; send-keys-pty
\* attempts CR, and LF too when its attribute query succeeded; send-keys-raw
\* enqueues the payload and one CR; send-keys-no-enter enqueues the payload
\* alone.  A 0x0A follows the payload exactly when an LF injection was made
\* and accepted.
C8_FramingConformance ==
    DefaultFramingRun =>
        /\ queue = text \o AcceptedFraming
        /\ (queue \in {text \o <<LF>>, text \o <<CR, LF>>}) <=> Called("lf", TRUE)
        /\ prog = "send-keys" => FramingAttempts = <<CR, LF>>
        /\ prog = "send-keys-pty" =>
            /\ FramingAttempts \in {<<CR>>, <<CR, LF>>}
            /\ ~QueryFailed => FramingAttempts = <<CR, LF>>
        /\ prog = "send-keys-raw" => queue = text \o <<CR>>
        /\ prog = "send-keys-no-enter" => (FramingAttempts = <<>> /\ queue = text)

C8_Witness ==
    /\ DefaultFramingRun
    /\ prog = "send-keys-no-enter"
    /\ Len(text) >= 1
    /\ queue = text

\* ---- C9 ----
\* C9: in send-keys-no-enter, a run with token "none" never makes a framing
\* call and leaves exactly the payload on the queue when it exits 0; a run
\* with token "enter" that exits 0 has attempted exactly CR then LF after the
\* payload.
C9_TokenFraming ==
    (prog = "send-keys-no-enter" /\ argc = 4) =>
        /\ argv3 = "none" =>
            /\ FramingAttempts = <<>>
            /\ Exited(0) => queue = text
        /\ (argv3 = "enter" /\ Exited(0)) =>
            /\ FramingAttempts = <<CR, LF>>
            /\ queue = text \o AcceptedFraming

C9_WitnessEnter ==
    /\ prog = "send-keys-no-enter"
    /\ argv3 = "enter"
    /\ Exited(0)
    /\ Len(text) >= 1
    /\ queue = text \o <<CR, LF>>

C9_WitnessNone ==
    /\ prog = "send-keys-no-enter"
    /\ argv3 = "none"
    /\ Exited(0)
    /\ Len(text) >= 1
    /\ queue = text

\* ---- C10 ----
\* the flags a successful tcgetattr returned
SnapshotTaken(lflag) ==
    \E k \in 1..Len(trace) :
        trace[k].op = "tcgetattr" /\ trace[k].ok /\ trace[k].byte = lflag

\* C10: in send-keys-pty, a run that exits 0 after a successful attribute
\* query has attempted CR then LF when the flags returned by that query had
\* ICANON, and CR alone when they had not, whatever the terminal's mode is by
\* the time the framing is sent.
C10_SnapshotFraming ==
    (prog = "send-keys-pty" /\ Exited(0)) =>
        \A lflag \in LFlags :
            SnapshotTaken(lflag) =>
                FramingAttempts = IF HasICANON(lflag) THEN <<CR, LF>> ELSE <<CR>>

C10_WitnessCanon ==
    /\ prog = "send-keys-pty"
    /\ Exited(0)
    /\ Len(text) >= 1
    /\ \E lflag \in LFlags : SnapshotTaken(lflag) /\ HasICANON(lflag)
    /\ ~HasICANON(termLflag)
    /\ FramingAttempts = <<CR, LF>>

C10_WitnessRaw ==
    /\ prog = "send-keys-pty"
    /\ Exited(0)
    /\ Len(text) >= 1
    /\ \E lflag \in LFlags : SnapshotTaken(lflag) /\ ~HasICANON(lflag)
    /\ HasICANON(termLflag)
    /\ FramingAttempts = <<CR>>

\* ---- C11 ----
DualByte ==
    \/ prog \in {"send-keys", "send-keys-pty"}
    \/ prog = "send-keys-no-enter" /\ WantsEnter

FramingFailed == Called("cr", FALSE) \/ Called("lf", FALSE)

\* C11: in send-keys, send-keys-no-enter with "enter" and send-keys-pty, a run
\* whose CR or LF injection failed still ends with exit status 0 and the
\* handle closed; in send-keys and send-keys-no-enter the LF is attempted after
\* a failed CR, and in send-keys-pty it is attempted after a failed CR whenever
\* the flags returned by the attribute query had ICANON.
C11_SoftFramingFailure ==
    (DualByte /\ FramingFailed) =>
        /\ pc = "exit" => (exitStatus = 0 /\ CloseCount = 1 /\ openFds = {})
        /\ pc \in {"settle", "canon", "lf", "close", "exit"}
        /\ (Exited(0) /\ Called("cr", FALSE)) =>
            /\ prog # "send-keys-pty" => FramingAttempts = <<CR, LF>>
            /\ \A lflag \in LFlags :
                (SnapshotTaken(lflag) /\ HasICANON(lflag)) =>
                    FramingAttempts = <<CR, LF>>

C11_Witness ==
    /\ Exited(0)
    /\ prog = "send-keys"
    /\ Len(text) >= 1
    /\ Called("cr", FALSE)
    /\ Called("lf", FALSE)
    /\ queue = text

C11_WitnessPty ==
    /\ Exited(0)
    /\ prog = "send-keys-pty"
    /\ Called("cr", FALSE)
    /\ Called("lf", TRUE)

\* ---- C12 ----
\* C12: in send-keys-raw, once the whole payload was accepted, a failed CR
\* injection ends the run with the handle closed and exit status 1 and the
\* payload alone on the queue; a successful CR injection ends it with exactly
\* one CR and no LF after the payload and exit status 0.
C12_StrictFramingFailure ==
    (prog = "send-keys-raw" /\ pc = "exit") =>
        /\ Called("cr", FALSE) =>
            /\ exitStatus = 1
            /\ CloseCount = 1 /\ openFds = {}
            /\ queue = text
            /\ FramingAttempts = <<CR>>
        /\ Called("cr", TRUE) =>
            /\ exitStatus = 0
            /\ queue = text \o <<CR>>
            /\ FramingAttempts = <<CR>>
        /\ exitStatus = 0 => Called("cr", TRUE)

C12_Witness ==
    /\ Exited(1)
    /\ prog = "send-keys-raw"
    /\ Len(text) >= 2
    /\ AllTextAccepted
    /\ Called("cr", FALSE)
    /\ queue = text

C12_WitnessAccepted ==
    /\ Exited(0)
    /\ prog = "send-keys-raw"
    /\ Len(text) >= 2
    /\ queue = text \o <<CR>>

\* ---- C13 ----
OpenFailed == \E k \in 1..Len(trace) : trace[k].op = "open" /\ ~trace[k].ok

\* C13: when the open fails, the failed open is the only system call of the
\* run: no attribute query, no injection and no close follows, nothing is put
\* on the queue and the run has exited with status 1.
C13_OpenFailureIsTerminal ==
    OpenFailed =>
        /\ trace = <<Ev("open", "", 0, FALSE)>>
        /\ queue = <<>>
        /\ openFds = {}
        /\ Exited(1)

C13_Witness ==
    /\ OpenFailed
    /\ Exited(1)
    /\ Len(text) >= 1
    /\ stderr = <<"Failed to open terminal">>

\* ---- C14 ----
IsInterCharDelay(e) == e.op = "usleep" /\ e.byte = INTER_CHAR_USEC

InterCharDelays == Len(SelectSeq(trace, IsInterCharDelay))

\* C14: in send-keys-pty a run that injected all n payload bytes has made
\* exactly max(n - 1, 0) inter-byte delays, and no inter-byte delay follows
\* the injection of the last payload byte.
C14_PacingBetweenBytes ==
    (prog = "send-keys-pty" /\ Exited(0)) =>
        InterCharDelays = IF Len(text) = 0 THEN 0 ELSE Len(text) - 1

\* ---- C16 ----
\* C16: no step of the tool, in any variant and on any path, changes the
\* local-mode flags of the terminal: they change only when another process
\* changes them.
C16_NoTerminalMutation ==
    [][modeChanges' = modeChanges => termLflag' = termLflag]_vars

C16_Witness ==
    /\ pc = "exit"
    /\ QueriesAttrs
    /\ Len(text) >= 1
    /\ modeChanges = 0
    /\ SnapshotTaken(termLflag)
    /\ Called("cr", TRUE)

\* ---- C17 ----
Policies == {<<>>, <<CR>>, <<CR, LF>>}

\* C17 as stated: after exit 0 the bytes on the queue after the payload are
\* nothing, CR, or CR then LF.
C17_QueueHoldsOnePolicy ==
    Exited(0) => \E f \in Policies : queue = text \o f

\* C17 amended: after exit 0 the framing injections attempted after the
\* payload are exactly nothing, CR, or CR then LF, and the bytes on the queue
\* after the payload are those of the attempts that were accepted: one of
\* nothing, CR, LF alone (CR failed, LF accepted) or CR then LF.
C17_OnePolicyAttempted ==
    Exited(0) =>
        /\ FramingAttempts \in Policies
        /\ queue = text \o AcceptedFraming
        /\ AcceptedFraming \in Framings
        /\ AcceptedFraming = <<LF>> =>
            (DualByte /\ Called("cr", FALSE) /\ Called("lf", TRUE))

C17_Witness ==
    /\ Exited(0)
    /\ Len(text) >= 1
    /\ FramingAttempts = <<CR, LF>>
    /\ queue = text \o <<LF>>

\* ---- C19 ----
IsSettleDelay(e) == e.op = "usleep" /\ e.byte = SETTLE_USEC

\* C19 as stated: in send-keys-pty the settle delay comes after every payload
\* injection and before every CR or LF injection.
C19_SettleBeforeFraming ==
    \A k \in 1..Len(trace) :
        IsSettleDelay(trace[k]) =>
            \A j \in 1..Len(trace) :
                /\ IsTextCall(trace[j]) => j < k
                /\ IsFramingCall(trace[j]) => k < j

\* C19 amended: in send-keys-pty the settle delay comes right after the CR
\* injection attempt, hence after every payload injection, and before the LF
\* injection; a run that exits 0 has made exactly one settle delay, and no
\* other variant makes one.
C19_SettleBetweenCRAndLF ==
    /\ \A k \in 1..Len(trace) :
        IsSettleDelay(trace[k]) =>
            /\ prog = "send-keys-pty"
            /\ k > 1
            /\ trace[k - 1].op = "ioctl" /\ trace[k - 1].kind = "cr"
            /\ \A j \in 1..Len(trace) :
                /\ IsTextCall(trace[j]) => j < k
                /\ (trace[j].op = "ioctl" /\ trace[j].kind = "lf") => k < j
                /\ IsSettleDelay(trace[j]) => j = k
    /\ (prog = "send-keys-pty" /\ Exited(0)) =>
        \E k \in 1..Len(trace) : IsSettleDelay(trace[k])

C19_Witness ==
    /\ prog = "send-keys-pty"
    /\ Exited(0)
    /\ Len(text) >= 1
    /\ Called("cr", TRUE)
    /\ Called("lf", TRUE)
    /\ \E k \in 1..Len(trace) : IsSettleDelay(trace[k])

\* ---- C18 ----
IsInjectionCall(e) == e.op = "ioctl"

InjectionCalls == Len(SelectSeq(trace, IsInjectionCall))

\* C18: when every system call returns, every run of every variant eventually
\* exits; it has exited exactly when its status is 0 or 1, it never makes more
\* than len(P) + 2 injection calls, and nothing changes once it has exited.
C18_Termination ==
    /\ <>(pc = "exit")
    /\ [](/\ InjectionCalls <= Len(text) + 2
          /\ pc = "exit" <=> exitStatus \in {0, 1}
          /\ pc # "exit" <=> exitStatus = -1)
    /\ [][pc = "exit" => UNCHANGED vars]_vars

C18_Witness ==
    /\ Exited(0)
    /\ Len(text) >= 1
    /\ InjectionCalls = Len(text) + 2

\* ---- C15 ----
RECURSIVE IsInterleaving(_, _, _)
\* q is a merge of a and b that keeps the order of a and the order of b
IsInterleaving(q, a, b) ==
    IF q = <<>>
    THEN a = <<>> /\ b = <<>>
    ELSE \/ a # <<>> /\ a[1] = q[1] /\ IsInterleaving(Tail(q), Tail(a), b)
         \/ b # <<>> /\ b[1] = q[1] /\ IsInterleaving(Tail(q), a, Tail(b))

PeerAcceptedText == BytesOf(SelectSeq(peer.trace, IsAcceptedText))

BothExited0 == Exited(0) /\ peer.pc = "exit" /\ peer.exitStatus = 0

\* C15: with two invocations with "none" framing on one terminal, at every
\* point the input queue is an order-preserving merge of the payload bytes
\* accepted so far from each; when both have exited 0 it is an order-preserving
\* merge of the two whole payloads, with every byte of each exactly once and
\* nothing else.
C15_Interleaving ==
    /\ IsInterleaving(queue, AcceptedText, PeerAcceptedText)
    /\ BothExited0 =>
        /\ IsInterleaving(queue, text, peer.argv2)
        /\ Len(queue) = Len(text) + Len(peer.argv2)

C15_Witness ==
    /\ BothExited0
    /\ Len(text) >= 2
    /\ Len(peer.argv2) >= 2
    /\ text[1] # peer.argv2[1]
    /\ text[1] # text[2]
    /\ queue # text \o peer.argv2
    /\ queue # peer.argv2 \o text
====
